---------------------------- MODULE Spec2Model ----------------------------
(***************************************************************************)
(* dispatch-proxy: weighted round-robin egress pool (load_balancer.rs),    *)
(* SOCKS5 handshake (socks.rs), connect-and-relay (platform/mod.rs) and    *)
(* the per-connection handlers (main.rs).                                  *)
(***************************************************************************)
EXTENDS Integers, Sequences, FiniteSets, TLC

(* ------------------------------ bounds -------------------------------- *)
\* largest pool (number of LoadBalancer entries) explored
MaxN == 2
\* largest contention ratio explored
MaxWeight == 2
\* longest tracked run of get_load_balancer(None, None) calls
MaxCalls == 9
\* number of accepted client connections (spawned tasks)
NumConns == 2

VARIABLES
    balancers,     \* LoadBalancerPool.balancers: 0..N-1 -> [contention_ratio, is_ipv6]
    state,         \* PoolState behind the Mutex: [current_index, current_connections]
    last,          \* the last completed get_load_balancer call: arguments and result
    rr,            \* bookkeeping of an unbroken run of get_load_balancer(None, None) calls
    streak,        \* selections issued by the scan since current_index was last assigned
    tunnel,        \* Args.tunnel
    up,            \* the balancers whose network path accepts every connect
    mutex,         \* LoadBalancerPool.state's Mutex: 0 when free, else the holding task
    pc,            \* per connection task: the await point (or lock) it stands at
    loc,           \* per connection task: its local variables
    res,           \* per connection task: what its handler returned
    trace,         \* per connection task: its I/O operations so far, in program order
    hist,          \* get_load_balancer calls in lock order, and the indices returned
    boot,          \* main before the accept loop: the arguments, and how far it got
    binder         \* one call of connect_with_interface: its socket operations so far

poolVars == <<balancers, state, last, rr, streak>>
engineVars == <<tunnel, up, mutex, pc, loc, res, trace, hist>>
auxVars == <<boot, binder>>
vars == <<balancers, state, last, rr, streak, tunnel, up, mutex, pc, loc, res, trace, hist,
          boot, binder>>

(* --------------------------- load_balancer.rs -------------------------- *)
N == Cardinality(DOMAIN balancers)
Indices == DOMAIN balancers

\* enum TargetAddressType, plus "None" for Option::None
TargetTypes == {"IPv4", "IPv6", "Domain"}
OptTargetTypes == TargetTypes \cup {"None"}

\* Option<&[bool]>: [some |-> FALSE] is None, otherwise v is the slice (0-based)
NoSkip == [some |-> FALSE, v |-> <<>>]
SomeSkip(v) == [some |-> TRUE, v |-> v]

\* mutant: a domain target is held to be an IPv4 target
family_filter_domain_v4(target_type, lb) ==
    CASE target_type \in {"IPv4", "Domain"} -> ~lb.is_ipv6
      [] target_type = "IPv6" -> lb.is_ipv6
      [] OTHER -> TRUE

\* the closure family_filter
family_filter(target_type, lb) ==
    CASE target_type = "IPv4" -> ~lb.is_ipv6
      [] target_type = "IPv6" -> lb.is_ipv6
      [] OTHER -> TRUE

\* mutant: the skip slice is never consulted
is_skipped_never(skip, idx) == FALSE

\* skip.map_or(false, |s| s.get(idx).copied().unwrap_or(false))
is_skipped(skip, idx) ==
    skip.some /\ idx \in DOMAIN skip.v /\ skip.v[idx]

\* available_count: not skipped and matching family
available_count(bal, skip, target_type) ==
    Cardinality({i \in DOMAIN bal :
                    ~is_skipped(skip, i) /\ family_filter(target_type, bal[i])})

\* mutant: the family filter is never disabled
use_family_filter_always(bal, skip, target_type) == TRUE

\* let use_family_filter = available_count > 0
use_family_filter(bal, skip, target_type) ==
    available_count(bal, skip, target_type) > 0

\* mutant: the family of the balancer is not compared with the target's
matches_family_any(uff, target_type, lb) == TRUE

matches_family(uff, target_type, lb) ==
    ~uff \/ family_filter(target_type, lb)

\* mutant: off by one, the cursor advances one selection late
ratio_reached_gt(current_connections, contention_ratio) ==
    current_connections > contention_ratio

\* if state.current_connections >= lb.contention_ratio
ratio_reached(current_connections, contention_ratio) ==
    current_connections >= contention_ratio

\* mutant: the cursor is not moved
next_index_stuck(bal, idx) == idx

\* (state.current_index + 1) % self.balancers.len()
next_index(bal, idx) == (idx + 1) % Cardinality(DOMAIN bal)

\* the branch taken when a valid balancer is found
found(bal, st, idx, moved) ==
    LET cc == st.current_connections + 1
        reached == ratio_reached(cc, bal[idx].contention_ratio)
    IN
    [idx   |-> idx,
     via   |-> "scan",
     moved |-> moved,
     advanced |-> reached,
     state |-> IF reached
               THEN [current_index |-> next_index(bal, idx), current_connections |-> 0]
               ELSE [current_index |-> idx, current_connections |-> cc]]

\* mutant: with every balancer skipped the first of the pool is returned
fallback_zero(bal, skip, st, start_index, moved) ==
    LET free == {i \in DOMAIN bal : ~is_skipped(skip, i)} IN
    [idx   |-> IF free # {}
               THEN CHOOSE i \in free : \A j \in free : i <= j
               ELSE 0,
     via   |-> "fallback",
     moved |-> moved,
     advanced |-> FALSE,
     state |-> st]

\* the fallback after a full round: first non-skipped balancer, else start_index
fallback(bal, skip, st, start_index, moved) ==
    LET free == {i \in DOMAIN bal : ~is_skipped(skip, i)} IN
    [idx   |-> IF free # {}
               THEN CHOOSE i \in free : \A j \in free : i <= j
               ELSE start_index,
     via   |-> "fallback",
     moved |-> moved,
     advanced |-> FALSE,
     state |-> st]

\* mutant: the count of the balancer left behind is carried along
move_to_next_keeps_count(bal, st) ==
    [current_index |-> next_index(bal, st.current_index),
     current_connections |-> st.current_connections]

\* move to next balancer: current_connections = 0, current_index += 1 (mod len)
move_to_next(bal, st) ==
    [current_index |-> next_index(bal, st.current_index),
     current_connections |-> 0]

\* the loop of get_load_balancer
RECURSIVE scan(_, _, _, _, _, _, _)
scan(bal, skip, target_type, uff, st, start_index, iterations) ==
    LET idx == st.current_index
        lb  == bal[idx]
    IN  IF ~is_skipped(skip, idx) /\ matches_family(uff, target_type, lb)
        THEN found(bal, st, idx, iterations)
        ELSE LET st2 == move_to_next(bal, st)
             IN  IF iterations + 1 >= Cardinality(DOMAIN bal)
                 THEN fallback(bal, skip, st2, start_index, iterations + 1)
                 ELSE scan(bal, skip, target_type, uff, st2, start_index, iterations + 1)

get_load_balancer(bal, st, skip, target_type) ==
    scan(bal, skip, target_type, use_family_filter(bal, skip, target_type),
         st, st.current_index, 0)

\* LoadBalancerPool::new
NewPoolState == [current_index |-> 0, current_connections |-> 0]

\* the pools parse_load_balancers / main may hand to LoadBalancerPool::new
LoadBalancers == [contention_ratio : 1..MaxWeight, is_ipv6 : BOOLEAN]
Pools == UNION {[0..(n - 1) -> LoadBalancers] : n \in 1..MaxN}

\* the skip slices a caller can pass for a pool: None or Some(vector of length N)
SkipArgs(bal) == {NoSkip} \cup {SomeSkip(v) : v \in [DOMAIN bal -> BOOLEAN]}

(* ------------------- the pool driven through its API ------------------- *)
NoCall == [target_type |-> "None", skip |-> NoSkip, idx |-> 0,
           via |-> "none", moved |-> 0, run |-> 0, pre |-> NewPoolState]

\* selections issued at the cursor, this one included, since current_index was
\* last assigned: a scan hit on an unmoved cursor continues the streak, a hit
\* after a move starts a new one, the exhaustion fallback issues none
RunOf(old, r) ==
    IF r.via = "scan" THEN (IF r.moved = 0 THEN old + 1 ELSE 1) ELSE 0

\* main has reached its accept loop, no connect_with_interface call is followed
Started ==
    /\ boot = [phase |-> "serving"]
    /\ binder = [phase |-> "none"]

\* no connection is ever accepted when the pool is driven through its API alone
NoEngine ==
    /\ tunnel = FALSE
    /\ up = {}
    /\ mutex = 0
    /\ pc = <<>>
    /\ loc = <<>>
    /\ res = <<>>
    /\ trace = <<>>
    /\ hist = [calls |-> <<>>, rets |-> <<>>]

PoolInit ==
    /\ balancers \in Pools
    /\ state = NewPoolState
    /\ last = NoCall
    /\ rr = [tracking |-> TRUE, calls |-> 0, count |-> [i \in DOMAIN balancers |-> 0]]
    /\ streak = 0
    /\ NoEngine
    /\ Started

\* one complete call pool.get_load_balancer(skip, target_type)
Select(skip, target_type) ==
    \E r \in {get_load_balancer(balancers, state, skip, target_type)} :
    /\ state' = r.state
    /\ last' = [target_type |-> target_type, skip |-> skip, idx |-> r.idx,
                via |-> r.via, moved |-> r.moved, run |-> RunOf(streak, r),
                pre |-> state]
    /\ streak' = IF r.advanced THEN 0 ELSE RunOf(streak, r)
    /\ rr' = IF rr.tracking /\ ~skip.some /\ target_type = "None" /\ rr.calls < MaxCalls
             THEN [tracking |-> TRUE, calls |-> rr.calls + 1,
                   count |-> [rr.count EXCEPT ![r.idx] = @ + 1]]
             ELSE [tracking |-> FALSE, calls |-> 0, count |-> <<>>]
    /\ UNCHANGED <<balancers, engineVars, auxVars>>

PoolNext ==
    \E skip \in SkipArgs(balancers), target_type \in OptTargetTypes :
        Select(skip, target_type)

PoolSpec == PoolInit /\ [][PoolNext]_vars

(* ------------------------------ socks.rs ------------------------------- *)
NOAUTH == 0
CONNECT == 1
IPV4 == 1
DOMAIN_ATYP == 3
IPV6 == 4
SUCCESS == 0
SERVER_FAILURE == 1
NETWORK_UNREACHABLE == 3
COMMAND_NOT_SUPPORTED == 7
ADDRTYPE_NOT_SUPPORTED == 8
SOCKS_VERSION == 5

\* send_error_response / send_success_response / send_network_unreachable:
\* let response = [5, status, 0, 1, 0, 0, 0, 0, 0, 0]
response(status) == <<5, status, 0, 1, 0, 0, 0, 0, 0, 0>>

\* mutant: NO ACCEPTABLE METHODS is answered
choice_no_acceptable == <<5, 255>>

\* servers_choice: conn.write_all(&[5, NOAUTH])
choice == <<5, NOAUTH>>

\* the bytes a client may send (a sample of each class the decoder tells apart)
Versions == {4, 5}
MethodLists == {<<>>, <<0>>, <<2>>}
Commands == {1, 2}
AddressTypes == {1, 3, 4, 5}

\* mutant: the command is checked before the version
reject_status_cmd_first(ver, cmd, atyp) ==
    IF cmd # CONNECT THEN COMMAND_NOT_SUPPORTED
    ELSE IF ver # SOCKS_VERSION THEN SERVER_FAILURE
    ELSE IF atyp \notin {IPV4, DOMAIN_ATYP, IPV6} THEN ADDRTYPE_NOT_SUPPORTED
    ELSE -1

\* client_connection_request: the status of the error reply for a request
\* header, in the order of the checks; -1 when the header is accepted
reject_status(ver, cmd, atyp) ==
    IF ver # SOCKS_VERSION THEN SERVER_FAILURE
    ELSE IF cmd # CONNECT THEN COMMAND_NOT_SUPPORTED
    ELSE IF atyp \notin {IPV4, DOMAIN_ATYP, IPV6} THEN ADDRTYPE_NOT_SUPPORTED
    ELSE -1

\* mutant: every accepted address type is reported as IPv4
target_type_of_v4(atyp) == "IPv4"

\* client_connection_request: the match on address_type
target_type_of(atyp) ==
    CASE atyp = IPV4 -> "IPv4"
      [] atyp = DOMAIN_ATYP -> "Domain"
      [] atyp = IPV6 -> "IPv6"

(* ------------------------- platform/linux.rs --------------------------- *)
\* lb.address.to_socket_addrs()?.find(|a| a.is_ipv4()): the address of a
\* LoadBalancer is an IP literal with port 0, of the family is_ipv6 tells
resolve_local(lb) == ~lb.is_ipv6

\* target_addr.to_socket_addrs()?.find(|a| a.is_ipv4()); dns_v4 tells whether
\* the answer for a domain name holds an IPv4 address
resolve_target(target_type, dns_v4) ==
    CASE target_type = "IPv4" -> TRUE
      [] target_type = "IPv6" -> FALSE
      [] OTHER -> dns_v4

\* to_socket_addrs: the families (4 for V4, 6 for V6) of the socket addresses
\* a domain name may resolve to, in the order of the answer
DnsAnswers == {<<>>, <<4>>, <<6>>, <<4, 6>>}

\* target_addr.to_socket_addrs(): an IP literal yields its own address
target_addrs(target_type, dns) ==
    CASE target_type = "IPv4" -> <<4>>
      [] target_type = "IPv6" -> <<6>>
      [] OTHER -> dns

\* .find(|a| a.is_ipv4())
find_ipv4(addrs) == \E i \in DOMAIN addrs : addrs[i] = 4

\* Socket::new(Domain::IPV4, Type::STREAM, Some(Protocol::TCP)), whatever lb is
socket_domain(lb) == 4

\* connect_with_interface: net tells whether socket setup and the connect
\* itself go through
connect_with_interface(target_type, dns_v4, lb, net) ==
    resolve_local(lb) /\ resolve_target(target_type, dns_v4) /\ net

(* ------------------- main.rs, platform/mod.rs: engine ------------------ *)
Conns == 1..NumConns

Ev(op, ok, bytes, idx) == [op |-> op, ok |-> ok, bytes |-> bytes, idx |-> idx]
Write(bytes, ok) == Ev("write", ok, bytes, -1)
\* the handler returned: the client TcpStream is dropped
Close == Ev("close", TRUE, <<>>, -1)

\* mutant: every lock() succeeds at once
lock_available_always(m) == TRUE

\* Mutex::lock returns when no other task holds the guard
lock_available(m) == m = 0

\* mutant: the method reply is left out
after_greeting_no_choice == "client_connection_request"

\* handle_socks_handshake: after the greeting comes servers_choice
after_greeting == "servers_choice"

\* mutant: a failed connect selects again
after_connect_error_retry == "lock"

\* connect_and_relay: Err(e) => send_network_unreachable, then return
after_connect_error == "send_network_unreachable"

\* mutant: the failed balancer is not recorded
mark_tried_forgets(tried, idx) == tried

\* tried[idx] = true
mark_tried(tried, idx) == [tried EXCEPT ![idx] = TRUE]

\* mutant: any() for all()
all_tried_any(tried) == \E i \in DOMAIN tried : tried[i]

\* tried.iter().all(|&t| t)
all_tried(tried) == \A i \in DOMAIN tried : tried[i]

NewLoc == [auth_methods |-> <<>>, target_type |-> "None", idx |-> -1,
           tried |-> [i \in DOMAIN balancers |-> FALSE],
           seen |-> NewPoolState]

Init ==
    /\ balancers \in Pools
    /\ state = NewPoolState
    /\ last = NoCall
    /\ rr = [tracking |-> FALSE, calls |-> 0, count |-> <<>>]
    /\ streak = 0
    /\ tunnel \in BOOLEAN
    /\ up \in SUBSET (DOMAIN balancers)
    /\ mutex = 0
    /\ pc = [c \in Conns |-> "accept"]
    /\ loc = [c \in Conns |-> NewLoc]
    /\ res = [c \in Conns |-> "none"]
    /\ trace = [c \in Conns |-> <<>>]
    /\ hist = [calls |-> <<>>, rets |-> <<>>]
    /\ Started

\* the task goes on to the await point next, having done the operations evs
Goto(c, next, evs) ==
    /\ pc' = [pc EXCEPT ![c] = next]
    /\ trace' = [trace EXCEPT ![c] = @ \o evs]
    /\ res' = res

\* the handler returns r, having done the operations evs
Return(c, r, evs) ==
    /\ pc' = [pc EXCEPT ![c] = "done"]
    /\ trace' = [trace EXCEPT ![c] = @ \o evs \o <<Close>>]
    /\ res' = [res EXCEPT ![c] = r]

\* main: accept, tokio::spawn(handle_connection); handle_connection: if tunnel
HandleConnection(c) ==
    /\ pc[c] = "accept"
    /\ Goto(c, IF tunnel THEN "lock" ELSE "client_greeting", <<>>)
    /\ UNCHANGED <<auxVars, poolVars, tunnel, up, mutex, loc, hist>>

\* client_greeting, and the version check of handle_socks_handshake
ClientGreeting(c) ==
    /\ pc[c] = "client_greeting"
    /\ \/ /\ Return(c, "handshake_error", <<Ev("read_greeting", FALSE, <<>>, -1)>>)
          /\ loc' = loc
       \/ \E version \in Versions, methods \in MethodLists :
            LET ev == Ev("read_greeting", TRUE, <<version>>, -1) IN
            /\ loc' = [loc EXCEPT ![c].auth_methods = methods]
            /\ IF version # SOCKS_VERSION
               THEN Return(c, "handshake_error", <<ev>>)
               ELSE Goto(c, after_greeting, <<ev>>)
    /\ UNCHANGED <<auxVars, poolVars, tunnel, up, mutex, hist>>

\* servers_choice; _auth_methods is never read
ServersChoice(c) ==
    /\ pc[c] = "servers_choice"
    /\ \/ /\ Goto(c, "client_connection_request", <<Write(choice, TRUE)>>)
          /\ loc' = loc
       \/ /\ Return(c, "handshake_error", <<Write(choice, FALSE)>>)
          /\ loc' = [loc EXCEPT ![c].auth_methods = <<>>]
    /\ UNCHANGED <<auxVars, poolVars, tunnel, up, mutex, hist>>

\* client_connection_request: the header, its checks and the error replies;
\* from here on _auth_methods is left out
ClientConnectionRequest(c) ==
    /\ pc[c] = "client_connection_request"
    /\ \/ /\ Return(c, "handshake_error", <<Ev("read_request", FALSE, <<>>, -1)>>)
          /\ loc' = [loc EXCEPT ![c].auth_methods = <<>>]
       \/ \E ver \in Versions, cmd \in Commands, atyp \in AddressTypes :
            LET ev == Ev("read_request", TRUE, <<ver, cmd, 0, atyp>>, -1)
                status == reject_status(ver, cmd, atyp)
            IN  IF status # -1
                THEN /\ \E ok \in BOOLEAN :
                            Return(c, "handshake_error",
                                   <<ev, Write(response(status), ok)>>)
                     /\ loc' = [loc EXCEPT ![c].auth_methods = <<>>]
                ELSE /\ Goto(c, "read_address", <<ev>>)
                     /\ loc' = [loc EXCEPT ![c].auth_methods = <<>>,
                                           ![c].target_type = target_type_of(atyp)]
    /\ UNCHANGED <<auxVars, poolVars, tunnel, up, mutex, hist>>

\* client_connection_request: the address and the port of the match arm
ReadAddress(c) ==
    /\ pc[c] = "read_address"
    /\ \/ Goto(c, "lock", <<Ev("read_address", TRUE, <<>>, -1)>>)
       \/ Return(c, "handshake_error", <<Ev("read_address", FALSE, <<>>, -1)>>)
    /\ UNCHANGED <<auxVars, poolVars, tunnel, up, mutex, loc, hist>>

\* mutant: the tunnel handler passes no skip slice
SkipArg_none(c) == NoSkip

\* mutant: one tried vector is shared by all tunnel connections
SkipArg_shared(c) ==
    IF tunnel
    THEN SomeSkip([i \in DOMAIN balancers |-> \E d \in DOMAIN loc : loc[d].tried[i]])
    ELSE NoSkip

\* the arguments of the call: connect_and_relay passes (None, Some(target_type)),
\* handle_tunnel_connection passes (Some(&tried), None)
SkipArg(c) == IF tunnel THEN SomeSkip(loc[c].tried) ELSE NoSkip
TargetArg(c) == IF tunnel THEN "None" ELSE loc[c].target_type

\* get_load_balancer: self.state.lock().unwrap(), the guard gives the state
LockState(c) ==
    /\ pc[c] = "lock"
    /\ lock_available(mutex)
    /\ mutex' = c
    /\ loc' = [loc EXCEPT ![c].seen = state]
    /\ hist' = [hist EXCEPT !.calls =
                   Append(@, [conn |-> c, skip |-> SkipArg(c),
                              target_type |-> TargetArg(c),
                              ver |-> Len(hist.rets)])]
    /\ Goto(c, "get_load_balancer", <<>>)
    /\ UNCHANGED <<auxVars, poolVars, tunnel, up>>

\* get_load_balancer: the body under the guard, the guard dropped on return
GetLoadBalancer(c) ==
    /\ pc[c] = "get_load_balancer"
    /\ \E r \in {get_load_balancer(balancers, loc[c].seen, SkipArg(c), TargetArg(c))} :
        /\ state' = r.state
        /\ loc' = [loc EXCEPT ![c].idx = r.idx]
        /\ hist' = [hist EXCEPT !.rets = Append(@, r.idx)]
        /\ Goto(c, IF tunnel THEN "tunnel_connect" ELSE "connect_with_interface",
                <<Ev("select", TRUE, <<>>, r.idx)>>)
    /\ mutex' = 0
    /\ UNCHANGED <<balancers, last, rr, streak, tunnel, up, auxVars>>

\* whether the connect to balancer idx goes through on the network
NetOutcomes(idx) == IF idx \in up THEN {TRUE} ELSE BOOLEAN

\* connect_and_relay: match connect_with_interface(target_addr, &lb).await
ConnectWithInterface(c) ==
    /\ pc[c] = "connect_with_interface"
    /\ \E dns \in (IF loc[c].target_type = "Domain" THEN DnsAnswers ELSE {<<>>}),
          net \in NetOutcomes(loc[c].idx) :
        LET lb == balancers[loc[c].idx]
            dns_v4 == find_ipv4(dns)
            resolved == resolve_local(lb) /\ resolve_target(loc[c].target_type, dns_v4)
            ok == connect_with_interface(loc[c].target_type, dns_v4, lb, net)
        IN  Goto(c, IF ok THEN "send_success_response" ELSE after_connect_error,
                 <<Ev("resolve", resolved, target_addrs(loc[c].target_type, dns),
                      loc[c].idx),
                   Ev("connect", ok,
                      IF resolved THEN <<socket_domain(lb)>> ELSE <<>>, loc[c].idx)>>)
    /\ UNCHANGED <<auxVars, poolVars, tunnel, up, mutex, loc, hist>>

\* connect_and_relay: send_success_response(&mut client).await?, then the relay
SendSuccessResponse(c) ==
    /\ pc[c] = "send_success_response"
    /\ \/ Goto(c, "relay", <<Write(response(SUCCESS), TRUE), Ev("relay", TRUE, <<>>, -1)>>)
       \/ Return(c, "connection_error", <<Write(response(SUCCESS), FALSE)>>)
    /\ UNCHANGED <<auxVars, poolVars, tunnel, up, mutex, loc, hist>>

\* connect_and_relay: send_network_unreachable(&mut client).await?; Err(e)
SendNetworkUnreachable(c) ==
    /\ pc[c] = "send_network_unreachable"
    /\ \E ok \in BOOLEAN :
        Return(c, "connection_error", <<Write(response(NETWORK_UNREACHABLE), ok)>>)
    /\ UNCHANGED <<auxVars, poolVars, tunnel, up, mutex, loc, hist>>

\* handle_tunnel_connection: match TcpStream::connect(&lb.address).await
TunnelConnect(c) ==
    /\ pc[c] = "tunnel_connect"
    /\ \E net \in NetOutcomes(loc[c].idx) :
        LET ev == Ev("connect", net, <<>>, loc[c].idx)
            tried == mark_tried(loc[c].tried, loc[c].idx)
        IN  IF net
            THEN /\ Goto(c, "relay", <<ev, Ev("relay", TRUE, <<>>, -1)>>)
                 /\ loc' = loc
            ELSE /\ loc' = [loc EXCEPT ![c].tried = tried]
                 /\ IF all_tried(tried)
                    THEN Return(c, "tunnel_error", <<ev>>)
                    ELSE Goto(c, "lock", <<ev>>)
    /\ UNCHANGED <<auxVars, poolVars, tunnel, up, mutex, hist>>

\* mutant: the error of the relay is returned, as with `?`
relay_result_propagates(ok) == IF ok THEN "ok" ELSE "connection_error"

\* let _ = copy_bidirectional(..).await; Ok(()): the Result is dropped
relay_result(ok) == "ok"

\* let _ = copy_bidirectional(...).await; Ok(())
CopyBidirectional(c) ==
    /\ pc[c] = "relay"
    /\ \E ok \in BOOLEAN :
        Return(c, relay_result(ok), <<Ev("relay_end", ok, <<>>, -1)>>)
    /\ UNCHANGED <<auxVars, poolVars, tunnel, up, mutex, loc, hist>>

Next ==
    \E c \in Conns :
        \/ HandleConnection(c)
        \/ ClientGreeting(c)
        \/ ServersChoice(c)
        \/ ClientConnectionRequest(c)
        \/ ReadAddress(c)
        \/ LockState(c)
        \/ GetLoadBalancer(c)
        \/ ConnectWithInterface(c)
        \/ SendSuccessResponse(c)
        \/ SendNetworkUnreachable(c)
        \/ TunnelConnect(c)
        \/ CopyBidirectional(c)

Spec == Init /\ [][Next]_vars

(* --------------------------- main.rs: startup -------------------------- *)
\* char::to_digit(10)
digit(ch) ==
    CASE ch = "0" -> 0 [] ch = "1" -> 1 [] ch = "2" -> 2 [] ch = "3" -> 3
      [] ch = "4" -> 4 [] ch = "5" -> 5 [] ch = "6" -> 6 [] ch = "7" -> 7
      [] ch = "8" -> 8 [] ch = "9" -> 9 [] OTHER -> -1

RECURSIVE parse_digits(_, _)
\* the digits of a text, most significant first; -1 for an invalid digit
parse_digits(s, acc) ==
    IF s = <<>> THEN acc
    ELSE IF digit(Head(s)) = -1 THEN -1
    ELSE parse_digits(Tail(s), acc * 10 + digit(Head(s)))

\* str::parse for an unsigned type: an optional '+', then at least one digit,
\* no '-'; -1 stands for Err (the texts explored are too short to overflow)
parse_unsigned(s) ==
    LET t == IF s # <<>> /\ Head(s) = "+" THEN Tail(s) ELSE s
    IN  IF t = <<>> THEN -1 ELSE parse_digits(t, 0)

\* the texts given after '@' and after ':' (a sample of each class the parser
\* tells apart), as sequences of characters
WeightTexts == {<<>>, <<"0">>, <<"1">>, <<"2">>, <<"+", "1">>, <<"-", "1">>, <<"x">>}
PortTexts == {<<"0">>, <<"8", "0">>, <<"x">>}

\* one positional argument: the kind of its address text, the text after the
\* last ':' if any, and parts[1] of arg.split('@') if any
Arguments ==
    [address : {"v4", "v6", "name"},
     port    : {<<>>} \cup {<<t>> : t \in PortTexts},
     weight  : {<<>>} \cup {<<t>> : t \in WeightTexts}]
NoArgument == [address |-> "none", port |-> <<>>, weight |-> <<>>]

\* mutant: a ratio of 0 is let through
ratio_rejected_never(ratio) == FALSE

\* if contention_ratio == 0 { bail!(..) }
ratio_rejected(ratio) == ratio = 0

Err(msg) == [ok |-> FALSE, err |-> msg, lb |-> <<>>]
Ok(ratio, is_ipv6) ==
    [ok |-> TRUE, err |-> "", lb |-> [contention_ratio |-> ratio, is_ipv6 |-> is_ipv6]]

\* parse_load_balancers: the body of the loop for one argument; has_iface
\* tells whether get_iface_from_ip finds an interface with the address
parse_load_balancer(arg, tunnel_mode, has_iface) ==
    LET ratio == IF arg.weight # <<>> THEN parse_unsigned(arg.weight[1]) ELSE 1
        port == IF arg.port # <<>> THEN parse_unsigned(arg.port[1]) ELSE -1
    IN  IF ratio = -1 \/ ratio_rejected(ratio) THEN Err("Invalid contention ratio")
        ELSE IF tunnel_mode
        THEN IF arg.port = <<>> THEN Err("Invalid address specification")
             ELSE IF port = -1 \/ port = 0 THEN Err("Invalid port")
             ELSE Ok(ratio, arg.address = "v6")
        ELSE IF arg.port # <<>> \/ arg.address = "name" THEN Err("Invalid address")
             ELSE IF ~has_iface THEN Err("IP address not associated with an interface")
             ELSE Ok(ratio, arg.address = "v6")

\* Vec::push on the 0-based vector
push(bal, lb) ==
    [i \in 0..Cardinality(DOMAIN bal) |-> IF i \in DOMAIN bal THEN bal[i] ELSE lb]

\* main is entered: Args::parse() has given the flags, the number of
\* positional arguments and the first of them (the others are drawn as they
\* are parsed); no pool exists and no connection is accepted
StartupInit ==
    /\ boot \in [phase : {"main"}, list : BOOLEAN, auto : BOOLEAN, lhost_ok : BOOLEAN,
                 argc : 0..MaxN, first : Arguments \cup {NoArgument},
                 working : {-1}, arg : {NoArgument}, err : {""}]
    /\ boot.argc = 0 <=> boot.first = NoArgument
    /\ tunnel \in BOOLEAN
    /\ balancers = <<>>
    /\ state = NewPoolState
    /\ last = NoCall
    /\ rr = [tracking |-> FALSE, calls |-> 0, count |-> <<>>]
    /\ streak = 0
    /\ up = {}
    /\ mutex = 0
    /\ pc = <<>>
    /\ loc = <<>>
    /\ res = <<>>
    /\ trace = <<>>
    /\ hist = [calls |-> <<>>, rets |-> <<>>]
    /\ binder = [phase |-> "none"]

Fail(msg) == boot' = [boot EXCEPT !.phase = "error", !.err = msg]

\* main: list mode, then the branch on args.auto
Main ==
    /\ boot.phase = "main"
    /\ IF boot.list THEN boot' = [boot EXCEPT !.phase = "exit"]
       ELSE IF boot.auto
       THEN IF tunnel THEN Fail("Auto-detection is not supported in tunnel mode")
            ELSE boot' = [boot EXCEPT !.phase = "auto_detect_interfaces"]
       ELSE IF ~boot.lhost_ok THEN Fail("Invalid host")
            ELSE boot' = [boot EXCEPT !.phase = "parse_load_balancers"]
    /\ UNCHANGED <<poolVars, engineVars, binder>>

\* main: auto_detect_interfaces().await, every working interface gets ratio 1
AutoDetectInterfaces ==
    /\ boot.phase = "auto_detect_interfaces"
    /\ \E n \in 0..MaxN :
        \E working \in [0..(n - 1) -> BOOLEAN] :
            IF n = 0
            THEN /\ boot' = [boot EXCEPT !.phase = "error", !.working = 0,
                              !.err = "No interfaces with working internet connectivity found"]
                 /\ balancers' = balancers
            ELSE /\ boot' = [boot EXCEPT !.phase = "listen", !.working = n]
                 /\ balancers' = [i \in 0..(n - 1) |->
                                    [contention_ratio |-> 1, is_ipv6 |-> working[i]]]
    /\ UNCHANGED <<state, last, rr, streak, engineVars, binder>>

\* parse_load_balancers: if args.is_empty() { bail!(..) }
ParseLoadBalancers ==
    /\ boot.phase = "parse_load_balancers"
    /\ IF boot.argc = 0
       THEN Fail("Please specify one or more load balancers")
       ELSE boot' = [boot EXCEPT !.phase = "for"]
    /\ UNCHANGED <<poolVars, engineVars, binder>>

\* parse_load_balancers: one iteration of the loop, and Ok(load_balancers)
\* after the last one
ParseArgument ==
    /\ boot.phase = "for"
    /\ \E arg \in (IF balancers = <<>> THEN {boot.first} ELSE Arguments),
          has_iface \in BOOLEAN :
        \E r \in {parse_load_balancer(arg, tunnel, has_iface)} :
            IF r.ok
            THEN /\ balancers' = push(balancers, r.lb)
                 /\ boot' = [boot EXCEPT !.arg = arg,
                               !.phase = IF Cardinality(DOMAIN balancers) + 1 = boot.argc
                                         THEN "listen" ELSE "for"]
            ELSE /\ balancers' = balancers
                 /\ boot' = [boot EXCEPT !.arg = arg, !.phase = "error", !.err = r.err]
    /\ UNCHANGED <<state, last, rr, streak, engineVars, binder>>

\* main: LoadBalancerPool::new(load_balancers), TcpListener::bind(..).await?
Listen ==
    /\ boot.phase = "listen"
    /\ \/ boot' = [boot EXCEPT !.phase = "serving"]
       \/ Fail("bind")
    /\ UNCHANGED <<poolVars, engineVars, binder>>

StartupNext ==
    \/ Main
    \/ AutoDetectInterfaces
    \/ ParseLoadBalancers
    \/ ParseArgument
    \/ Listen

StartupSpec == StartupInit /\ [][StartupNext]_vars

(* ------------- platform/linux.rs, platform/generic.rs: steps ----------- *)
\* Result<()> of one socket operation
Out(ok) == IF ok THEN "Ok" ELSE "Err"

\* socket.connect: Ok(()), Err(EINPROGRESS), Err(WouldBlock), any other Err
ConnectOutcomes == {"Ok", "EINPROGRESS", "WouldBlock", "Err"}

\* the arms of match socket.connect(..) that fall through
connect_expected(out) == out \in {"Ok", "EINPROGRESS", "WouldBlock"}

\* stream.take_error(): Ok(None), Ok(Some(e)), Err
TakeErrorOutcomes == {"None", "Some", "Err"}

\* linux.rs: if let Some(ref iface) = lb.iface { setsockopt .. }; generic.rs
\* has no such step
after_set_reuse_address(linux, iface) ==
    IF linux /\ iface THEN "setsockopt" ELSE "bind"

\* mutant: a failed SO_BINDTODEVICE is returned as the error of the call
after_setsockopt_abort(ok) == IF ok THEN "bind" ELSE "error"

\* if let Err(e) = setsockopt(..) { warn!(..) }: the call goes on either way
after_setsockopt(ok) == "bind"

\* connect_with_interface(target_addr, lb) is called, on either platform,
\* for a balancer with or without interface name
BinderInit ==
    /\ binder \in [phase : {"local_addr"}, linux : BOOLEAN,
                   lb : [is_ipv6 : BOOLEAN, iface : BOOLEAN],
                   target_type : TargetTypes, ops : {<<>>}]
    /\ boot = [phase |-> "serving"]
    /\ balancers = <<>>
    /\ state = NewPoolState
    /\ last = NoCall
    /\ rr = [tracking |-> FALSE, calls |-> 0, count |-> <<>>]
    /\ streak = 0
    /\ NoEngine

\* the call performs op with outcome out and goes on to next ("error": the
\* call returns Err, "connected": it returns Ok(stream))
BinderStep(op, out, next) ==
    /\ binder' = [binder EXCEPT !.phase = next,
                                !.ops = Append(@, [op |-> op, out |-> out])]
    /\ UNCHANGED <<poolVars, engineVars, boot>>

\* lb.address.to_socket_addrs()?.find(|a| a.is_ipv4()).ok_or_else(..)?
ResolveLocal ==
    /\ binder.phase = "local_addr"
    /\ \E ok \in {resolve_local(binder.lb)} :
        BinderStep("resolve_local", Out(ok), IF ok THEN "target" ELSE "error")

\* target_addr.to_socket_addrs()?.find(|a| a.is_ipv4()).ok_or_else(..)?
ResolveTarget ==
    /\ binder.phase = "target"
    /\ \E dns \in DnsAnswers :
        \E ok \in {resolve_target(binder.target_type, find_ipv4(dns))} :
            BinderStep("resolve_target", Out(ok), IF ok THEN "socket" ELSE "error")

\* Socket::new(Domain::IPV4, Type::STREAM, Some(Protocol::TCP))?
SocketNew ==
    /\ binder.phase = "socket"
    /\ \E ok \in BOOLEAN :
        BinderStep("socket", Out(ok), IF ok THEN "set_reuse_address" ELSE "error")

\* socket.set_reuse_address(true)?
SetReuseAddress ==
    /\ binder.phase = "set_reuse_address"
    /\ \E ok \in BOOLEAN :
        BinderStep("set_reuse_address", Out(ok),
                   IF ok THEN after_set_reuse_address(binder.linux, binder.lb.iface)
                   ELSE "error")

\* setsockopt(fd, BindToDevice, ..)
BindToDevice ==
    /\ binder.phase = "setsockopt"
    /\ \E ok \in BOOLEAN :
        BinderStep("bind_to_device", Out(ok), after_setsockopt(ok))

\* socket.bind(&local_addr.into())?
Bind ==
    /\ binder.phase = "bind"
    /\ \E ok \in BOOLEAN :
        BinderStep("bind", Out(ok), IF ok THEN "set_nonblocking" ELSE "error")

\* socket.set_nonblocking(true)?
SetNonblocking ==
    /\ binder.phase = "set_nonblocking"
    /\ \E ok \in BOOLEAN :
        BinderStep("set_nonblocking", Out(ok), IF ok THEN "connect" ELSE "error")

\* match socket.connect(&target.into())
Connect ==
    /\ binder.phase = "connect"
    /\ \E out \in ConnectOutcomes :
        BinderStep("connect", out, IF connect_expected(out) THEN "from_std" ELSE "error")

\* TcpStream::from_std(std_stream)?
FromStd ==
    /\ binder.phase = "from_std"
    /\ \E ok \in BOOLEAN :
        BinderStep("from_std", Out(ok), IF ok THEN "writable" ELSE "error")

\* stream.writable().await?
Writable ==
    /\ binder.phase = "writable"
    /\ \E ok \in BOOLEAN :
        BinderStep("writable", Out(ok), IF ok THEN "take_error" ELSE "error")

\* if let Some(e) = stream.take_error()? { return Err(e.into()) }; Ok(stream)
TakeError ==
    /\ binder.phase = "take_error"
    /\ \E out \in TakeErrorOutcomes :
        BinderStep("take_error", out, IF out = "None" THEN "connected" ELSE "error")

BinderNext ==
    \/ ResolveLocal
    \/ ResolveTarget
    \/ SocketNew
    \/ SetReuseAddress
    \/ BindToDevice
    \/ Bind
    \/ SetNonblocking
    \/ Connect
    \/ FromStd
    \/ Writable
    \/ TakeError

BinderSpec == BinderInit /\ [][BinderNext]_vars

(* ----------------------- claims about the pool ------------------------- *)
\* what the claims say of a call, stated without the selector's own helpers
Marked(skip, i) == skip.some /\ i \in DOMAIN skip.v /\ skip.v[i] = TRUE
AllMarked(skip) == \A i \in Indices : Marked(skip, i)
FamilyOf(lb) == IF lb.is_ipv6 THEN "IPv6" ELSE "IPv4"
Weight(i) == balancers[i].contention_ratio

RECURSIVE WeightBelow(_)
\* sum of the weights of the indices below n
WeightBelow(n) == IF n = 0 THEN 0 ELSE WeightBelow(n - 1) + Weight(n - 1)
TotalWeight == WeightBelow(N)

\* the index the k-th call of a weighted round-robin returns (k >= 1)
ExpectedIndex(k) ==
    LET p == (k - 1) % TotalWeight IN
    CHOOSE i \in Indices : WeightBelow(i) <= p /\ p < WeightBelow(i + 1)

\* C1: from the initial state (cursor 0, hits 0) a run of select(none, none)
\* calls returns index 0 weight[0] times, then index 1 weight[1] times, ...,
\* and repeats; after every k*sum(weights) calls index i was returned exactly
\* k*weight[i] times; with all weights 1 the run is plain round-robin.
C1_WeightedRoundRobin ==
    (rr.tracking /\ rr.calls > 0) =>
        /\ last.idx = ExpectedIndex(rr.calls)
        /\ (rr.calls % TotalWeight = 0 =>
                \A i \in Indices :
                    rr.count[i] = (rr.calls \div TotalWeight) * Weight(i))
        /\ ((\A i \in Indices : Weight(i) = 1) => last.idx = (rr.calls - 1) % N)

\* two full rounds of the pool [(w=2), (w=1)]: 0, 0, 1, 0, 0, 1
C1_Witness ==
    /\ rr.tracking /\ N = 2 /\ Weight(0) = 2 /\ Weight(1) = 1
    /\ rr.calls = 6 /\ last.idx = 1 /\ rr.count[0] = 4 /\ rr.count[1] = 2

\* C2: after every completed select call, whatever the hints and skip vectors
\* of the calls so far, 0 <= cursor < N and 0 <= hits < weight[cursor]; and the
\* selections issued at one index while the cursor stays there never exceed
\* that index's weight.
C2_SelectorInvariant ==
    /\ state.current_index \in Indices
    /\ state.current_connections >= 0
    /\ state.current_connections < Weight(state.current_index)
    /\ (last.via = "scan" => last.run <= Weight(last.idx))
    /\ streak <= Weight(state.current_index)

\* a call with a skip vector scanned past an index and left the cursor on an
\* index with one selection issued and a weight of two
C2_Witness ==
    /\ last.via = "scan" /\ last.skip.some /\ last.moved >= 1
    /\ state.current_index = last.idx /\ state.current_connections = 1
    /\ last.run = 1 /\ Weight(last.idx) = 2

\* C3: select never returns an index marked true in skip unless every index
\* of the pool is marked.
C3_NoSkippedUnlessExhausted ==
    (last.via # "none" /\ Marked(last.skip, last.idx)) => AllMarked(last.skip)

\* the cursor stood on a marked index, another index was free and was returned
C3_Witness ==
    /\ last.via = "scan" /\ last.moved >= 1
    /\ \E i \in Indices : Marked(last.skip, i)
    /\ ~Marked(last.skip, last.idx)

\* C4: when the family hint is v4 or v6 and a non-skipped descriptor of that
\* family exists, select returns a non-skipped descriptor of that family.
C4_FamilyAffinity ==
    (/\ last.via # "none"
     /\ last.target_type \in {"IPv4", "IPv6"}
     /\ \E i \in Indices : ~Marked(last.skip, i)
                            /\ FamilyOf(balancers[i]) = last.target_type)
    => /\ ~Marked(last.skip, last.idx)
       /\ FamilyOf(balancers[last.idx]) = last.target_type

\* a v6 target in a mixed pool: the cursor stood on the v4 balancer and the
\* call moved on to the v6 one
C4_Witness ==
    /\ last.via = "scan" /\ last.target_type = "IPv6" /\ last.moved >= 1
    /\ \E i \in Indices : ~balancers[i].is_ipv6
    /\ balancers[last.idx].is_ipv6

\* the first index not marked in skip, scanning forward from c modulo N
FirstFree(c, skip) ==
    LET d == CHOOSE d \in 0..(N - 1) :
                /\ ~Marked(skip, (c + d) % N)
                /\ \A e \in 0..(d - 1) : Marked(skip, (c + e) % N)
    IN  (c + d) % N

\* C15: family fallback: when the hint is v4 or v6, no non-skipped descriptor
\* has that family and some descriptor is not skipped, select returns a
\* non-skipped descriptor of the other family, the first non-skipped index
\* scanning forward from the cursor modulo N.
C15_FamilyFallback ==
    (/\ last.via # "none"
     /\ last.target_type \in {"IPv4", "IPv6"}
     /\ ~\E i \in Indices : ~Marked(last.skip, i)
                             /\ FamilyOf(balancers[i]) = last.target_type
     /\ \E i \in Indices : ~Marked(last.skip, i))
    => /\ last.via = "scan"
       /\ ~Marked(last.skip, last.idx)
       /\ FamilyOf(balancers[last.idx]) # last.target_type
       /\ last.idx = FirstFree(last.pre.current_index, last.skip)

\* a v6 target in a pool of two v4 balancers: the cursor stood on index 1,
\* which was skipped, and the call wrapped around to index 0
C15_Witness ==
    /\ N = 2 /\ \A i \in Indices : ~balancers[i].is_ipv6
    /\ last.via = "scan" /\ last.target_type = "IPv6"
    /\ last.pre.current_index = 1 /\ Marked(last.skip, 1)
    /\ last.idx = 0

\* C16: a call that scans past unsuitable indices before it finds index i
\* leaves hits = 1 and cursor = i if weight[i] > 1, and hits = 0 and
\* cursor = (i+1) mod N if weight[i] = 1 (hits was reset on the way); a call
\* that finds the cursor index suitable increments hits, and moves the cursor
\* to (i+1) mod N with hits = 0 exactly when hits reaches weight[i].
C16_ScanResetsHits ==
    last.via = "scan" =>
        LET i == last.idx
            hits == last.pre.current_connections + 1
        IN  IF last.moved >= 1
            THEN /\ i # last.pre.current_index
                 /\ state = IF Weight(i) > 1
                            THEN [current_index |-> i, current_connections |-> 1]
                            ELSE [current_index |-> (i + 1) % N, current_connections |-> 0]
            ELSE /\ i = last.pre.current_index
                 /\ state = IF hits = Weight(i)
                            THEN [current_index |-> (i + 1) % N, current_connections |-> 0]
                            ELSE [current_index |-> i, current_connections |-> hits]

\* the cursor stood on an index with one hit out of two; the call passed it
\* and stopped on an index of weight two, with one hit
C16_Witness ==
    /\ last.via = "scan" /\ last.moved >= 1
    /\ last.pre.current_connections = 1
    /\ Weight(last.idx) = 2
    /\ state = [current_index |-> last.idx, current_connections |-> 1]

\* the pool [(v4, w=1), (v6, w=1)]
MixedPairPool ==
    /\ N = 2 /\ Weight(0) = 1 /\ Weight(1) = 1
    /\ ~balancers[0].is_ipv6 /\ balancers[1].is_ipv6

\* the last call was select(domain, none)
DomainCall(call) == call.via # "none" /\ call.target_type = "Domain" /\ ~call.skip.some

\* C17: from every selector state and with every skip vector, select with the
\* hint domain returns the index and leaves the (cursor, hits) that select
\* with the hint none does; in the pool [(v4, w=1), (v6, w=1)] successive
\* select(domain, none) calls alternate between index 0 and index 1.
C17_DomainAsNone ==
    /\ [](\A hint \in {"Domain", "None"} :
            (last.via # "none" /\ last.target_type = hint) =>
                \A other \in {"Domain", "None"} \ {hint} :
                    LET r == get_load_balancer(balancers, last.pre, last.skip, other)
                    IN  r.idx = last.idx /\ r.state = state)
    /\ [][(MixedPairPool /\ DomainCall(last) /\ DomainCall(last'))
            => last'.idx = 1 - last.idx]_vars

\* two select(domain, none) calls in a row on the mixed pair, the second of
\* them returned the v6 balancer
C17_Witness ==
    /\ MixedPairPool /\ DomainCall(last)
    /\ last.pre.current_index = 1 /\ last.idx = 1
    /\ state.current_index = 0

\* C18: when every index is marked in skip, select returns the index the
\* cursor stood on at call entry and leaves the cursor there; a pool of one
\* returns its sole egress with or without skip.
C18_AllSkipped ==
    /\ (last.via # "none" /\ AllMarked(last.skip)) =>
            /\ last.idx = last.pre.current_index
            /\ state.current_index = last.pre.current_index
    /\ (last.via # "none" /\ N = 1) => last.idx = 0

\* every index of a pool of two was marked while the cursor stood on index 1
\* with one hit
C18_Witness ==
    /\ N = 2 /\ AllMarked(last.skip) /\ last.via = "fallback"
    /\ last.pre = [current_index |-> 1, current_connections |-> 1]
    /\ last.idx = 1 /\ state.current_index = 1

(* ------------------------ tunnel mode, scheduled ----------------------- *)
\* Args.tunnel is set: only handle_tunnel_connection runs
TunnelInit == Init /\ tunnel = TRUE

TunnelNext ==
    \E c \in Conns :
        \/ HandleConnection(c)
        \/ LockState(c)
        \/ GetLoadBalancer(c)
        \/ TunnelConnect(c)
        \/ CopyBidirectional(c)

\* the steps the runtime completes on its own: a spawned task is polled, a
\* lock() returns once the mutex is free, a connect ends in Ok or Err; the
\* relay lasts as long as the peers keep the connection open
TunnelProgress(c) ==
    \/ HandleConnection(c)
    \/ LockState(c)
    \/ GetLoadBalancer(c)
    \/ TunnelConnect(c)

FairTunnelSpec ==
    TunnelInit /\ [][TunnelNext]_vars /\ \A c \in Conns : WF_vars(TunnelProgress(c))

(* ---------------------- claims about the engine ------------------------ *)
\* positions of the operations of connection c that satisfy P
Ops(c, op) == {k \in DOMAIN trace[c] : trace[c][k].op = op}
Writes(c, bytes) ==
    {k \in Ops(c, "write") : trace[c][k].bytes = bytes}
Decoded(c) == \E k \in Ops(c, "read_address") : trace[c][k].ok
FailedIdx(c) == {trace[c][k].idx : k \in {j \in Ops(c, "connect") : ~trace[c][j].ok}}
TenByteReply(code) == <<5, code, 0, 1, 0, 0, 0, 0, 0, 0>>

RECURSIVE ReplayFrom(_, _, _)
\* the sequential execution of calls[k..], from selector state st: the indices
\* returned, and the state left
ReplayFrom(st, calls, k) ==
    IF k > Len(calls) THEN [rets |-> <<>>, state |-> st]
    ELSE LET r == get_load_balancer(balancers, st, calls[k].skip, calls[k].target_type)
             rest == ReplayFrom(r.state, calls, k + 1)
         IN  [rets |-> <<r.idx>> \o rest.rets, state |-> rest.state]

\* C5: concurrent select calls are linearizable: the guard is held by at most
\* one task, no two calls act on the same pre-state, and the indices returned,
\* in lock order, are those of a sequential execution of the calls in that
\* order, which also leaves the selector state the concurrent one has.
C5_Linearizable ==
    LET seq == ReplayFrom(NewPoolState, hist.calls, 1)
        done == Len(hist.rets)
    IN  /\ Cardinality({c \in Conns : pc[c] = "get_load_balancer"}) <= 1
        /\ \A i, j \in DOMAIN hist.calls :
                i # j => hist.calls[i].ver # hist.calls[j].ver
        /\ done <= Len(hist.calls)
        /\ hist.rets = SubSeq(seq.rets, 1, done)
        /\ (mutex = 0 => done = Len(hist.calls) /\ state = seq.state)

\* a task waits for the lock another task holds, after a first call was served
C5_Witness ==
    \E c1, c2 \in Conns :
        /\ c1 # c2
        /\ pc[c1] = "get_load_balancer" /\ mutex = c1
        /\ pc[c2] = "lock"
        /\ Len(hist.rets) >= 1
        /\ state # NewPoolState

\* C6: in SOCKS mode the method reply (5, 0) is written before the request is
\* read, SUCCESS is written only after the outbound connect succeeded, the
\* relay starts only right after SUCCESS was written, and a decoded request
\* gets exactly one final reply, SUCCESS or NETWORK_UNREACHABLE (a reply
\* counts as written when the write is issued).
C6_SocksWireOrder ==
    ~tunnel =>
    \A c \in Conns :
        LET final == Writes(c, TenByteReply(0)) \cup Writes(c, TenByteReply(3)) IN
        /\ \A k \in Ops(c, "read_request") :
                k > 1 /\ trace[c][k - 1] = Write(<<5, 0>>, TRUE)
        /\ \A k \in Writes(c, TenByteReply(0)) :
                \E j \in Ops(c, "connect") : j < k /\ trace[c][j].ok
        /\ \A k \in Ops(c, "relay") :
                k > 1 /\ trace[c][k - 1] = Write(TenByteReply(0), TRUE)
        /\ Cardinality(final) <= 1
        /\ \A k \in final : Decoded(c)
        /\ (Decoded(c) /\ pc[c] \in {"relay", "done"}) => Cardinality(final) = 1

\* a SOCKS client went through the whole exchange and its relay has started
C6_Witness ==
    /\ ~tunnel
    /\ \E c \in Conns :
        /\ pc[c] = "relay"
        /\ Writes(c, <<5, 0>>) # {} /\ Writes(c, TenByteReply(0)) # {}
        /\ Ops(c, "read_request") # {} /\ Ops(c, "relay") # {}

\* C7: in SOCKS mode a decoded request causes exactly one select call, without
\* skip vector, and exactly one connect attempt; when that connect fails,
\* NETWORK_UNREACHABLE is written and the connection ends, no other egress is
\* selected or tried.
C7_SocksSingleAttempt ==
    ~tunnel =>
    \A c \in Conns :
        /\ Cardinality(Ops(c, "select")) <= 1
        /\ Cardinality(Ops(c, "connect")) <= 1
        /\ \A i \in DOMAIN hist.calls :
                hist.calls[i].conn = c => ~hist.calls[i].skip.some
        /\ (Decoded(c) /\ pc[c] = "done") =>
                /\ Cardinality(Ops(c, "select")) = 1
                /\ Cardinality(Ops(c, "connect")) = 1
        /\ \A k \in Ops(c, "connect") :
                (~trace[c][k].ok /\ pc[c] = "done") =>
                    /\ Len(trace[c]) = k + 2
                    /\ trace[c][k + 1].op = "write"
                    /\ trace[c][k + 1].bytes = TenByteReply(3)
                    /\ trace[c][k + 2].op = "close"
                    /\ res[c] = "connection_error"

\* the connect through the selected balancer failed and the connection ended,
\* though the network path of another IPv4 balancer accepts every connect
C7_Witness ==
    /\ ~tunnel
    /\ \E c \in Conns :
        /\ pc[c] = "done" /\ loc[c].target_type = "IPv4"
        /\ Writes(c, TenByteReply(3)) # {}
        /\ \E k \in Ops(c, "connect") : ~trace[c][k].ok
        /\ \E j \in Indices : j # loc[c].idx /\ j \in up /\ ~balancers[j].is_ipv6

\* the relay an established upstream connection started
Relayed(c) ==
    /\ pc[c] = "relay"
    /\ \E k \in Ops(c, "connect") :
        trace[c][k].ok /\ trace[c][k].idx = loc[c].idx /\ k + 1 \in Ops(c, "relay")

\* C8: in tunnel mode, when at least one upstream accepts every connect, each
\* client connection is eventually relayed through an upstream whose connect
\* succeeded, under every interleaving with the other connections; it never
\* ends with the pool-exhausted error, and nothing is ever written to the client.
C8_TunnelFailover ==
    \A c \in Conns :
        /\ (up # {}) => <>Relayed(c)
        /\ (up # {}) => [](res[c] # "tunnel_error")
        /\ [](Ops(c, "write") = {})

\* a connection is relayed after a failed attempt, while another connection
\* has used the selector too
C8_Witness ==
    /\ tunnel /\ up # {}
    /\ \E c1, c2 \in Conns :
        /\ c1 # c2
        /\ Relayed(c1) /\ FailedIdx(c1) # {}
        /\ Ops(c2, "select") # {}

\* C9: in tunnel mode a connection ends with the pool-exhausted error exactly
\* when a connect attempt failed for every one of the N egresses during that
\* connection, its skip vector then being all true; no relay was started and
\* the client connection is closed.
C9_TunnelExhausted ==
    tunnel =>
    \A c \in Conns :
        /\ (res[c] = "tunnel_error") <=> (FailedIdx(c) = Indices)
        /\ (res[c] = "tunnel_error") =>
                /\ \A i \in Indices : loc[c].tried[i]
                /\ Ops(c, "relay") = {}
                /\ pc[c] = "done"
                /\ trace[c][Len(trace[c])].op = "close"
        /\ \A i \in Indices : loc[c].tried[i] <=> i \in FailedIdx(c)

\* both upstreams of a pool of two failed for one connection
C9_Witness ==
    /\ tunnel /\ N = 2
    /\ \E c \in Conns :
        /\ res[c] = "tunnel_error"
        /\ Cardinality(Ops(c, "connect")) = 2

\* the reply code the decoder owes a rejected header; -1 for an accepted one
OwedCode(ver, cmd, atyp) ==
    CASE ver # 5 -> 1
      [] ver = 5 /\ cmd # 1 -> 7
      [] ver = 5 /\ cmd = 1 /\ atyp \notin {1, 3, 4} -> 8
      [] OTHER -> -1

\* C10: a rejected request header is answered with exactly the ten bytes
\* [5, code, 0, 1, 0,0,0,0, 0,0], code 0x01 if ver # 5, else 0x07 if
\* cmd # 1, else 0x08 if atyp is none of 1, 3, 4, and the connection ends
\* without select, connect or relay.
C10_RequestRejected ==
    \A c \in Conns :
        \A k \in Ops(c, "read_request") :
            LET h == trace[c][k].bytes
                code == OwedCode(h[1], h[2], h[4])
            IN  (trace[c][k].ok /\ code # -1) =>
                    /\ Len(trace[c]) = k + 2
                    /\ trace[c][k + 1].op = "write"
                    /\ trace[c][k + 1].bytes = TenByteReply(code)
                    /\ trace[c][k + 2].op = "close"
                    /\ pc[c] = "done"
                    /\ Ops(c, "select") \cup Ops(c, "connect") \cup Ops(c, "relay") = {}
                    /\ \A i \in DOMAIN hist.calls : hist.calls[i].conn # c

\* a header wrong in version, command and address type is answered 0x01, and
\* a BIND request of version 5 is answered 0x07
C10_Witness ==
    \E c1, c2 \in Conns :
        /\ \E k \in Ops(c1, "read_request") :
            /\ trace[c1][k].bytes = <<4, 2, 0, 5>>
            /\ trace[c1][k + 1].bytes = TenByteReply(1)
        /\ \E k \in Ops(c2, "read_request") :
            /\ trace[c2][k].bytes = <<5, 2, 0, 1>>
            /\ trace[c2][k + 1].bytes = TenByteReply(7)

\* the ten-byte replies of connection c that carry an error status
ErrorReplies(c) ==
    {k \in Ops(c, "write") : Len(trace[c][k].bytes) = 10 /\ trace[c][k].bytes[2] # 0}

\* the handshake of c ended on what the client sent, not on a failed write
ProtocolError(c) ==
    /\ res[c] = "handshake_error"
    /\ \A k \in Ops(c, "write") : trace[c][k].ok \/ k \in ErrorReplies(c)

\* C11: every connection the decoder ends for a protocol error (a short read
\* in the greeting or the request, an unsupported command or address type, a
\* version mismatch in the greeting or the request) has had a SOCKS error
\* reply written to the client before it is closed.
C11_ProtocolErrorReplied ==
    \A c \in Conns :
        ProtocolError(c) =>
            \E k \in ErrorReplies(c) :
                k < Len(trace[c]) /\ trace[c][Len(trace[c])].op = "close"

\* the family of an egress as to_socket_addrs tells it
FamilyCode(lb) == IF lb.is_ipv6 THEN 6 ELSE 4

\* C12: connect_with_interface resolves the bind address and the target to an
\* address of the egress's family and creates the socket of that family; it
\* fails at resolution only when the target has no address of the egress's
\* family (the bind address always has one); a v6 egress with a v6 target is
\* bound and connected over IPv6.
C12_BinderUsesEgressFamily ==
    \A c \in Conns :
        \A k \in Ops(c, "resolve") :
            LET lb == balancers[trace[c][k].idx]
                candidates == {trace[c][k].bytes[i] : i \in DOMAIN trace[c][k].bytes}
                connect == trace[c][k + 1]
            IN  /\ trace[c][k].ok <=> FamilyCode(lb) \in candidates
                /\ trace[c][k].ok => connect.bytes = <<FamilyCode(lb)>>
                /\ (lb.is_ipv6 /\ 6 \in candidates /\ trace[c][k].idx \in up)
                        => connect.ok /\ connect.bytes = <<6>>

\* C13: a greeting of version 5 is answered with exactly the two bytes 5, 0,
\* whatever method list it advertises (empty, or without 0x00), and once that
\* reply is written the request is the next thing read.
C13_MethodReplyIgnoresMethods ==
    \A c \in Conns :
        /\ pc[c] = "servers_choice" =>
                /\ loc[c].auth_methods \in MethodLists
                /\ trace[c] = <<Ev("read_greeting", TRUE, <<5>>, -1)>>
        /\ \A k \in Ops(c, "read_greeting") :
                (trace[c][k].ok /\ trace[c][k].bytes = <<5>> /\ pc[c] # "servers_choice") =>
                    /\ Len(trace[c]) > k
                    /\ trace[c][k + 1].op = "write"
                    /\ trace[c][k + 1].bytes = <<5, 0>>
                    /\ trace[c][k + 1].ok =>
                            IF Len(trace[c]) = k + 1
                            THEN pc[c] = "client_connection_request"
                            ELSE trace[c][k + 2].op = "read_request"

\* one client advertised no method at all, the other only method 2: both were
\* answered 5, 0 and both are about to have their request read
C13_Witness ==
    \E c1, c2 \in Conns :
        /\ pc[c1] = "client_connection_request" /\ loc[c1].auth_methods = <<>>
        /\ trace[c1][2] = Write(<<5, 0>>, TRUE)
        /\ pc[c2] = "client_connection_request" /\ loc[c2].auth_methods = <<2>>
        /\ trace[c2][2] = Write(<<5, 0>>, TRUE)

\* the family the claims assign to an address type byte
HintOf(atyp) == CASE atyp = 1 -> "IPv4" [] atyp = 3 -> "Domain" [] atyp = 4 -> "IPv6"

\* the positions in hist.calls of the select calls of connection c
CallsOf(c) == {i \in DOMAIN hist.calls : hist.calls[i].conn = c}

\* C19: in SOCKS mode the family hint passed to select is the family of the
\* decoded request's address type (1 -> v4, 3 -> domain, 4 -> v6), and the
\* egress handed to connect_with_interface is the one that call returned.
C19_HintAndEgress ==
    ~tunnel =>
    \A c \in Conns :
        /\ \A i \in CallsOf(c) :
                /\ \E k \in Ops(c, "read_request") :
                        /\ trace[c][k].ok
                        /\ hist.calls[i].target_type = HintOf(trace[c][k].bytes[4])
                /\ \A k \in Ops(c, "select") :
                        i <= Len(hist.rets) /\ trace[c][k].idx = hist.rets[i]
        /\ \A k \in Ops(c, "connect") \cup Ops(c, "resolve") :
                /\ CallsOf(c) # {}
                /\ \A i \in CallsOf(c) :
                        i <= Len(hist.rets) /\ trace[c][k].idx = hist.rets[i]
                /\ \E j \in Ops(c, "select") : j < k /\ trace[c][j].idx = trace[c][k].idx

\* a request with a domain name was connected through index 0 and a request
\* with an IPv6 address through index 1, the index its own select call returned
C19_Witness ==
    /\ ~tunnel
    /\ \E c1, c2 \in Conns :
        /\ \E k \in Ops(c1, "read_request") : trace[c1][k].ok /\ trace[c1][k].bytes[4] = 3
        /\ \E k \in Ops(c1, "connect") : trace[c1][k].idx = 0
        /\ \E k \in Ops(c2, "read_request") : trace[c2][k].ok /\ trace[c2][k].bytes[4] = 4
        /\ \E k \in Ops(c2, "connect") : trace[c2][k].idx = 1
        /\ \E i \in CallsOf(c2) :
                /\ hist.calls[i].target_type = "IPv6"
                /\ i <= Len(hist.rets) /\ hist.rets[i] = 1

\* C21: once the relay has started (in SOCKS mode after the SUCCESS reply, in
\* tunnel mode after a successful connect), an I/O error or a disconnect
\* during the relay is swallowed: the handler ends with the success result,
\* whatever the relay's own result, and the step that ends the relay leaves
\* the selector state and the log of select calls as they were.
C21_RelayErrorsSwallowed ==
    /\ [](\A c \in Conns :
            /\ \A k \in Ops(c, "relay_end") :
                    /\ res[c] = "ok" /\ pc[c] = "done"
                    /\ k > 1 /\ trace[c][k - 1].op = "relay"
                    /\ Len(trace[c]) = k + 1 /\ trace[c][k + 1].op = "close"
            /\ \A k \in Ops(c, "relay") :
                    IF tunnel
                    THEN trace[c][k - 1].op = "connect" /\ trace[c][k - 1].ok
                    ELSE trace[c][k - 1] = Write(TenByteReply(0), TRUE)
            /\ res[c] \in {"connection_error", "tunnel_error", "handshake_error"}
                    => Ops(c, "relay") = {})
    /\ [][\A c \in Conns :
            (pc[c] = "relay" /\ pc'[c] # "relay") =>
                /\ res'[c] = "ok"
                /\ state' = state /\ hist' = hist /\ mutex' = mutex]_vars

\* the relay of a SOCKS connection ended with an I/O error after another
\* connection had moved the selector, and the handler returned success
C21_Witness ==
    /\ ~tunnel
    /\ \E c \in Conns :
        /\ res[c] = "ok"
        /\ \E k \in Ops(c, "relay_end") : ~trace[c][k].ok
        /\ Writes(c, TenByteReply(0)) # {}
        /\ Len(hist.rets) = 2

\* the indices connection c has attempted a connect through
AttemptedIdx(c) == {trace[c][k].idx : k \in Ops(c, "connect")}

\* C22: in tunnel mode, within one client connection every egress index is
\* attempted at most once, select is never called with an all-true skip
\* vector, there are at most N connect attempts, after the N-th the loop has
\* ended, and the loop does end (relay or pool-exhausted), however the other
\* connections move the shared cursor.
C22_TunnelLoopBounded ==
    \A c \in Conns :
        /\ [](/\ Cardinality(Ops(c, "connect")) = Cardinality(AttemptedIdx(c))
              /\ Cardinality(Ops(c, "connect")) <= N
              /\ \A i \in CallsOf(c) :
                    /\ hist.calls[i].skip.some
                    /\ DOMAIN hist.calls[i].skip.v = Indices
                    /\ \E j \in Indices : ~hist.calls[i].skip.v[j]
              /\ Cardinality(Ops(c, "connect")) = N => pc[c] \in {"relay", "done"})
        /\ <>(pc[c] \in {"relay", "done"}
              /\ (res[c] = "tunnel_error" \/ Ops(c, "relay") # {}))

\* both connections worked through a pool of two: one failed on index 0 and
\* is relayed through index 1, the other failed on both
C22_Witness ==
    /\ tunnel /\ N = 2
    /\ \E c1, c2 \in Conns :
        /\ pc[c1] = "relay" /\ FailedIdx(c1) = {0} /\ AttemptedIdx(c1) = {0, 1}
        /\ res[c2] = "tunnel_error" /\ Cardinality(Ops(c2, "connect")) = 2

\* the handshake steps of handle_socks_handshake
HandshakeSteps == {"client_greeting", "servers_choice", "client_connection_request",
                   "read_address"}

\* the indices connection c had failed on before its operation at position k
FailedBefore(c, k) ==
    {trace[c][j].idx : j \in {j \in Ops(c, "connect") : j < k /\ ~trace[c][j].ok}}

\* C23: a SOCKS connection whose handshake fails performs no select call, and
\* no handshake step changes the selector state; the skip vector of a select
\* call of a tunnel connection marks exactly the indices that connection
\* itself failed on (never one another connection failed on), and a SOCKS
\* call carries no skip vector.
C23_ConnectionsIndependent ==
    /\ [](\A c \in Conns :
            /\ (res[c] = "handshake_error" \/ pc[c] \in HandshakeSteps) =>
                    /\ CallsOf(c) = {}
                    /\ Ops(c, "select") \cup Ops(c, "connect") = {}
            /\ \A i \in CallsOf(c) :
                    IF tunnel
                    THEN /\ hist.calls[i].skip.some
                         /\ \A j \in Indices :
                                hist.calls[i].skip.v[j] => j \in FailedIdx(c)
                    ELSE ~hist.calls[i].skip.some
            /\ \A k \in Ops(c, "select") :
                    trace[c][k].idx \notin FailedBefore(c, k))
    /\ [][\A c \in Conns :
            (pc[c] \in HandshakeSteps /\ pc'[c] # pc[c]) =>
                /\ state' = state /\ hist' = hist /\ mutex' = mutex
                /\ \A d \in Conns \ {c} : loc'[d] = loc[d]]_vars

\* tunnel mode, pool of two: one connection failed on index 0 and has it
\* marked; the select call the other connection made afterwards, with nothing
\* marked, returned index 0
C23_Witness ==
    /\ tunnel /\ N = 2
    /\ \E c1, c2 \in Conns :
        /\ c1 # c2
        /\ loc[c1].tried[0] /\ 0 \in FailedIdx(c1)
        /\ \E i1 \in CallsOf(c1), i2 \in CallsOf(c2) :
            /\ i1 < i2 /\ i2 <= Len(hist.rets)
            /\ hist.calls[i1].skip.v[0]
            /\ \A j \in Indices : ~hist.calls[i2].skip.v[j]
            /\ hist.rets[i2] = 0

(* ------------------------ claims about startup ------------------------- *)
\* the weight texts that denote a positive integer
PositiveTexts == {<<"1">>, <<"2">>, <<"+", "1">>}
TextValue(t) == IF t = <<"2">> THEN 2 ELSE 1

\* C14 as stated: every pool handed to the engine is non-empty with all
\* weights >= 1: startup ends in an error when no egress argument is given
\* without --auto, when --auto finds no working interface, when a weight given
\* on the command line is 0 or not a positive integer, and in tunnel mode when
\* the port is 0; an argument without @weight gets weight 1.
C14_AnyBadWeightFails ==
    LET pool_exists == boot.phase \in {"listen", "serving"}
    IN  /\ pool_exists =>
                /\ N >= 1
                /\ \A i \in Indices : balancers[i].contention_ratio >= 1
        /\ (~boot.auto /\ boot.argc = 0) => ~pool_exists
        /\ boot.working = 0 => ~pool_exists
        /\ (boot.first.weight # <<>> /\ boot.first.weight[1] \notin PositiveTexts) =>
                ~pool_exists
        /\ (tunnel /\ boot.first.port = <<<<"0">>>>) => ~pool_exists
        /\ (pool_exists /\ ~boot.auto /\ boot.first.weight = <<>>) =>
                balancers[0].contention_ratio = 1

\* C14, amended: every pool handed to the engine is non-empty with all
\* weights >= 1. Where the egress arguments are parsed, that is without --list
\* and without --auto, startup ends in an error when none is given, when the
\* weight of an argument is 0 or not a positive integer, and in tunnel mode
\* when its port is 0; an argument without @weight gets weight 1 (and one
\* with a weight gets that weight). With --auto the arguments are not looked
\* at: startup ends in an error when no working interface is found, and every
\* interface found gets weight 1.
C14_StartupPool ==
    LET pool_exists == boot.phase \in {"listen", "serving"}
        accepted == boot.arg # NoArgument /\ boot.phase # "error"
    IN  /\ pool_exists =>
                /\ N >= 1
                /\ \A i \in Indices : balancers[i].contention_ratio >= 1
        /\ (~boot.auto /\ boot.argc = 0) =>
                boot.phase \in {"main", "parse_load_balancers", "exit", "error"}
        /\ boot.working = 0 => boot.phase = "error"
        /\ (boot.arg.weight # <<>> /\ boot.arg.weight[1] \notin PositiveTexts) =>
                boot.phase = "error"
        /\ (tunnel /\ boot.arg.port = <<<<"0">>>>) => boot.phase = "error"
        /\ (accepted /\ boot.arg.weight = <<>>) =>
                balancers[N - 1].contention_ratio = 1
        /\ (accepted /\ boot.arg.weight # <<>>) =>
                balancers[N - 1].contention_ratio = TextValue(boot.arg.weight[1])
        /\ boot.arg # NoArgument => ~boot.list /\ ~boot.auto
        /\ (pool_exists /\ boot.auto) =>
                /\ boot.arg = NoArgument
                /\ \A i \in Indices : balancers[i].contention_ratio = 1
        /\ boot.phase \in {"exit", "error"} => ~pool_exists

\* the server listens with a pool of two: the first argument carried @2, the
\* second no weight
C14_Witness ==
    /\ boot.phase = "serving" /\ N = 2 /\ ~boot.auto
    /\ balancers[0].contention_ratio = 2
    /\ boot.arg.weight = <<>> /\ balancers[1].contention_ratio = 1

(* ------------------------ claims about the binder --------------------- *)
\* the order of the socket setup as the claim lists it
ClaimedOrder(linux, iface) ==
    <<"socket", "set_reuse_address">>
    \o (IF linux /\ iface THEN <<"bind_to_device">> ELSE <<>>)
    \o <<"bind", "set_nonblocking", "connect", "writable", "take_error">>

IsSetupOp(e) == e.op \in {"socket", "set_reuse_address", "bind_to_device", "bind",
                          "set_nonblocking", "connect", "writable", "take_error"}
\* the setup operations performed so far, by name
SetupOps ==
    LET done == SelectSeq(binder.ops, IsSetupOp)
    IN  [k \in DOMAIN done |-> done[k].op]

OpFailed(e) == e.out \notin {"Ok", "EINPROGRESS", "WouldBlock", "None"}

\* C20: the socket setup runs in the order create socket, address reuse,
\* interface bind (only on Linux and only when the balancer has an interface
\* name), bind, non-blocking, connect (in progress and would-block taken as
\* expected), wait writable, read the pending error; a failed interface bind
\* never ends the call, any other failed step or a pending error ends it with
\* an error, and only a call that went through every step returns a stream.
C20_BinderOrder ==
    LET order == ClaimedOrder(binder.linux, binder.lb.iface)
        n == Len(binder.ops)
    IN  /\ Len(SetupOps) <= Len(order)
        /\ SetupOps = SubSeq(order, 1, Len(SetupOps))
        /\ \A k \in DOMAIN binder.ops :
                OpFailed(binder.ops[k]) =>
                    IF binder.ops[k].op = "bind_to_device"
                    THEN IF k = n THEN binder.phase = "bind"
                                  ELSE binder.ops[k + 1].op = "bind"
                    ELSE k = n /\ binder.phase = "error"
        /\ binder.phase = "error" => n >= 1 /\ OpFailed(binder.ops[n])
        /\ binder.phase = "connected" =>
                /\ SetupOps = order
                /\ binder.ops[n] = [op |-> "take_error", out |-> "None"]

\* on Linux, for a balancer with an interface name: SO_BINDTODEVICE failed,
\* connect returned EINPROGRESS, and the call returned the connected stream
C20_Witness ==
    /\ binder.phase = "connected" /\ binder.linux /\ binder.lb.iface
    /\ \E k \in DOMAIN binder.ops : binder.ops[k] = [op |-> "bind_to_device", out |-> "Err"]
    /\ \E k \in DOMAIN binder.ops : binder.ops[k] = [op |-> "connect", out |-> "EINPROGRESS"]

=============================================================================
